---- MODULE Spec2Model ----
(***************************************************************************)
(* Value codec of firesale: the serde-derived decoder of src/src/api.rs    *)
(* (FirestoreType, GeoPoint, Array, Map, FirestoreFields, Document) over   *)
(* JSON text read by serde_json, and the document requests built on it.    *)
(*                                                                         *)
(* JSON nodes are records tagged by k; an object is the SEQUENCE of its    *)
(* <<key, node>> members in source order, because serde_json reads members *)
(* one at a time and the derived visitors depend on that order.  Text is a *)
(* sequence of one-character strings.                                      *)
(***************************************************************************)
EXTENDS Integers, Sequences, FiniteSets, TLC

\* i32 of FirestoreType::Integer and GeoPoint (api.rs:56,57,67).
I32_MAX == 2147483647

I32_MIN == (-2147483647) - 1

\* Nesting depth of the generated wire composites.
MaxDepth == 2

(***************************************************************************)
(* Results                                                                 *)
(***************************************************************************)
Ok(v) == [ok |-> TRUE, val |-> v]

Err(m) == [ok |-> FALSE, err |-> m]

\* Result::map_err(|_| m)
or_else(r, m) == IF r.ok THEN r ELSE Err(m)

(***************************************************************************)
(* Numbers.  A mathematical number is kept in sign / decimal digits form   *)
(* (digits are 0..9, most significant first); a Rust i32 is an integer of  *)
(* the model.  JSON number literals keep their fraction digits, which is   *)
(* what makes serde_json read them as f64 rather than as an integer.       *)
(***************************************************************************)
Num(neg, ip, fp) == [neg |-> neg, ip |-> ip, fp |-> fp]

DigitChars == <<"0", "1", "2", "3", "4", "5", "6", "7", "8", "9">>

\* char::to_digit(10): the digit, or -1 for None.
to_digit(c) ==
  IF \E i \in 1..10 : DigitChars[i] = c
  THEN (CHOOSE i \in 1..10 : DigitChars[i] = c) - 1
  ELSE -1

\* char::from_digit(d, 10)
from_digit(d) == DigitChars[d + 1]

Some(v) == [some |-> TRUE, v |-> v]

None == [some |-> FALSE]

\* i32::checked_mul(self, 10)
checked_mul10(r) ==
  IF r > I32_MAX \div 10 \/ r < -(I32_MAX \div 10) THEN None ELSE Some(r * 10)

\* i32::checked_add(self, x), 0 <= x <= 9
checked_add(r, x) == IF r > I32_MAX - x THEN None ELSE Some(r + x)

\* i32::checked_sub(self, x), 0 <= x <= 9
checked_sub(r, x) == IF r < I32_MIN + x THEN None ELSE Some(r - x)

\* The digit loop of core::num::from_str_radix for i32, radix 10.
\* xs: the to_digit results of the remaining characters.
RECURSIVE accumulate(_, _, _)
accumulate(xs, result, is_positive) ==
  IF xs = <<>> THEN Ok(result)
  ELSE LET x == Head(xs) IN
    IF x < 0 THEN Err("invalid digit found in string")
    ELSE LET m == checked_mul10(result) IN
      IF ~m.some
      THEN Err(IF is_positive THEN "number too large to fit in target type"
                              ELSE "number too small to fit in target type")
      ELSE LET a == IF is_positive THEN checked_add(m.v, x) ELSE checked_sub(m.v, x) IN
        IF ~a.some
        THEN Err(IF is_positive THEN "number too large to fit in target type"
                                ELSE "number too small to fit in target type")
        ELSE accumulate(Tail(xs), a.v, is_positive)

\* <i32 as FromStr>::from_str
from_str_i32(src) ==
  IF src = <<>> THEN Err("cannot parse integer from empty string")
  ELSE LET signed == Head(src) \in {"+", "-"}
           is_positive == Head(src) # "-"
           digits == IF signed THEN Tail(src) ELSE src
       IN IF digits = <<>> THEN Err("cannot parse integer from empty string")
          ELSE accumulate([i \in 1..Len(digits) |-> to_digit(digits[i])], 0, is_positive)

\* The decimal digits of an i32, by repeated division (no |i32::MIN| is formed).
RECURSIVE digits_of(_)
digits_of(n) ==
  IF n >= 0
  THEN IF n < 10 THEN <<n>> ELSE Append(digits_of(n \div 10), n % 10)
  ELSE LET d == (10 - (n % 10)) % 10 IN
       IF n > -10 THEN <<d>> ELSE Append(digits_of((n + d) \div 10), d)

\* The number held by an i32.
NumOfI32(n) == Num(n < 0, digits_of(n), <<>>)

(***************************************************************************)
(* JSON nodes as serde_json reads them                                     *)
(***************************************************************************)
JNull == [k |-> "null"]

JBool(b) == [k |-> "bool", b |-> b]

JNum(num) == [k |-> "num", num |-> num]

JStr(s) == [k |-> "str", s |-> s]

JArr(items) == [k |-> "arr", items |-> items]

JObj(members) == [k |-> "obj", members |-> members]

(***************************************************************************)
(* Leaf deserializers                                                      *)
(***************************************************************************)
\* <i32 as Deserialize>: serde_json reads a literal with a fraction as f64,
\* which the i32 visitor refuses; an integer literal must fit i32.  (The
\* literal -0, which serde_json releases read as an integer or as a float,
\* is not among the numbers of this model.)
deserialize_i32(node) ==
  IF node.k # "num" THEN Err("invalid type: expected i32")
  ELSE IF node.num.fp # <<>> THEN Err("invalid type: floating point, expected i32")
  ELSE or_else(accumulate(node.num.ip, 0, ~node.num.neg),
               "invalid value: integer out of range, expected i32")

\* <bool as Deserialize>
deserialize_bool(node) ==
  IF node.k = "bool" THEN Ok(node.b) ELSE Err("invalid type: expected a boolean")

\* <String as Deserialize>
deserialize_string(node) ==
  IF node.k = "str" THEN Ok(node.s) ELSE Err("invalid type: expected a string")

\* A mutation: the payload is not looked at.
deserialize_unit_any(node) == Ok("unit")

\* <() as Deserialize>, what VariantAccess::unit_variant asks of the payload.
deserialize_unit(node) ==
  IF node.k = "null" THEN Ok("unit") ELSE Err("invalid type: expected unit")

\* serde_aux::deserialize_number_from_string::<i32>: the payload is buffered
\* and tried as the untagged StringOrInt { String(String), Number(i32) };
\* a String is then parsed with i32::from_str.
\* A mutation: only a string is taken.
deserialize_number_from_string_only(node) ==
  IF node.k = "str" THEN from_str_i32(node.s)
  ELSE Err("invalid type: expected a string")

deserialize_number_from_string(node) ==
  IF node.k = "str" THEN from_str_i32(node.s)
  ELSE or_else(deserialize_i32(node),
               "data did not match any variant of untagged enum StringOrInt")

(***************************************************************************)
(* Timestamps: chrono's DateTime<Utc>.  An instant is the day number since *)
(* 1970-01-01, the second of that day and the nanosecond (a leap second    *)
(* is second 59 with nanosecond >= 10^9, as chrono keeps it).              *)
(***************************************************************************)
NANOS_PER_SEC == 1000000000

SECS_PER_DAY == 86400

is_digits(s) == \A i \in 1..Len(s) : to_digit(s[i]) >= 0

\* The value of at most nine decimal digits.
RECURSIVE number_of(_)
number_of(s) ==
  IF s = <<>> THEN 0 ELSE number_of(SubSeq(s, 1, Len(s) - 1)) * 10 + to_digit(s[Len(s)])

is_leap_year(y) == y % 4 = 0 /\ (y % 100 # 0 \/ y % 400 = 0)

days_in_month(y, m) ==
  IF m = 2 THEN (IF is_leap_year(y) THEN 29 ELSE 28)
  ELSE IF m \in {4, 6, 9, 11} THEN 30 ELSE 31

\* NaiveDate::from_ymd -> days since 1970-01-01 (proleptic Gregorian).
days_from_civil(y, m, d) ==
  LET yy  == IF m <= 2 THEN y - 1 ELSE y
      era == yy \div 400
      yoe == yy - era * 400
      mp  == (m + 9) % 12
      doy == (153 * mp + 2) \div 5 + d - 1
      doe == yoe * 365 + yoe \div 4 - yoe \div 100 + doy
  IN era * 146097 + doe - 719468

\* The inverse: the <<year, month, day>> of a day number.
civil_from_days(z0) ==
  LET z   == z0 + 719468
      era == z \div 146097
      doe == z - era * 146097
      yoe == (doe - doe \div 1460 + doe \div 36524 - doe \div 146096) \div 365
      doy == doe - (365 * yoe + yoe \div 4 - yoe \div 100)
      mp  == (5 * doy + 2) \div 153
      d   == doy - (153 * mp + 2) \div 5 + 1
      m   == IF mp < 10 THEN mp + 3 ELSE mp - 9
      y   == yoe + era * 400 + (IF m <= 2 THEN 1 ELSE 0)
  IN <<y, m, d>>

Instant(days, secs, nanos) == [days |-> days, secs |-> secs, nanos |-> nanos]

\* chrono::format::ParseError kinds, by their Display text.
OUT_OF_RANGE == Err("input is out of range")

INVALID == Err("input contains invalid characters")

TOO_SHORT == Err("premature end of input")

TOO_LONG == Err("trailing input")

\* What a scan returns: the value and the rest of the input.
Scanned(v, rest) == Ok([v |-> v, rest |-> rest])

\* str::trim_left (the whitespace of the model's texts is the space).
RECURSIVE trim_left(_)
trim_left(s) == IF s # <<>> /\ Head(s) = " " THEN trim_left(Tail(s)) ELSE s

\* trim_left_matches(|c| '0' <= c && c <= '9')
RECURSIVE trim_digits(_)
trim_digits(s) == IF s # <<>> /\ to_digit(Head(s)) >= 0 THEN trim_digits(Tail(s)) ELSE s

\* trim_left_matches("0")
RECURSIVE trim_zeros(_)
trim_zeros(s) == IF s # <<>> /\ Head(s) = "0" THEN trim_zeros(Tail(s)) ELSE s

\* scan::colon_or_space
RECURSIVE colon_or_space(_)
colon_or_space(s) ==
  IF s # <<>> /\ Head(s) \in {":", " "} THEN colon_or_space(Tail(s)) ELSE s

\* The length of the leading run of digits, at most max.
digit_run(s, max) ==
  Cardinality({n \in 1..(IF Len(s) < max THEN Len(s) ELSE max) : is_digits(SubSeq(s, 1, n))})

\* scan::number once the n digits to take are known.  A value of more than
\* nine significant digits is past every field's range (it is told apart
\* here because the model's integers are narrower than the i64 of number).
number_taking(s, n, min) ==
  IF n < min THEN INVALID
  ELSE IF Len(trim_zeros(SubSeq(s, 1, n))) > 9 THEN OUT_OF_RANGE
  ELSE Scanned(number_of(trim_zeros(SubSeq(s, 1, n))), SubSeq(s, n + 1, Len(s)))

\* scan::number(s, min, max): at least min and at most max leading digits.
number(s, min, max) ==
  IF Len(s) < min THEN TOO_SHORT ELSE number_taking(s, digit_run(s, max), min)

RECURSIVE scale_nanos(_, _)
scale_nanos(v, missing) == IF missing = 0 THEN v ELSE scale_nanos(v * 10, missing - 1)

\* A mutation: the fraction is cut to milliseconds.
nanosecond_millis(r, origlen) ==
  IF ~r.ok THEN r
  ELSE Scanned((scale_nanos(r.val.v, 9 - (origlen - Len(r.val.rest))) \div 1000000) * 1000000,
               trim_digits(r.val.rest))

\* scan::nanosecond after its number(s, 1, 9): the digits read are scaled
\* to nanoseconds and further digits are skipped.
nanosecond_scaled(r, origlen) ==
  IF ~r.ok THEN r
  ELSE Scanned(scale_nanos(r.val.v, 9 - (origlen - Len(r.val.rest))), trim_digits(r.val.rest))

\* scan::nanosecond
nanosecond(s) == nanosecond_scaled(number(s, 1, 9), Len(s))

\* scan::timezone_offset after the hours: separator, then two minute digits.
offset_minutes(negative, hours, s) ==
  IF Len(s) < 2 THEN TOO_SHORT
  ELSE IF ~is_digits(SubSeq(s, 1, 2)) THEN INVALID
  ELSE IF number_of(SubSeq(s, 1, 2)) > 59 THEN OUT_OF_RANGE
  ELSE Scanned((IF negative THEN -1 ELSE 1) * (hours * 3600 + number_of(SubSeq(s, 1, 2)) * 60),
               SubSeq(s, 3, Len(s)))

\* scan::timezone_offset(s, colon_or_space): a sign, two hour digits, the
\* separator, two minute digits; the offset east of UTC in seconds.
timezone_offset(s) ==
  IF s = <<>> THEN TOO_SHORT
  ELSE IF Head(s) \notin {"+", "-"} THEN INVALID
  ELSE IF Len(s) < 3 THEN TOO_SHORT
  ELSE IF ~is_digits(SubSeq(s, 2, 3)) THEN INVALID
  ELSE offset_minutes(Head(s) = "-", number_of(SubSeq(s, 2, 3)),
                      colon_or_space(SubSeq(s, 4, Len(s))))

\* scan::timezone_offset_zulu: "Z" or "z", or an offset.
timezone_offset_zulu(s) ==
  IF s # <<>> /\ Head(s) \in {"Z", "z"} THEN Scanned(0, Tail(s)) ELSE timezone_offset(s)

\* Result::map(|v| -v) on a scan.
negated(r) == IF ~r.ok THEN r ELSE Scanned(-r.val.v, r.val.rest)

\* A Numeric item: a signed field (the year) takes any number of digits after
\* an explicit sign, and otherwise at most its width.
numeric(s, width, signed) ==
  IF signed /\ s # <<>> /\ Head(s) = "-" THEN negated(number(Tail(s), 1, Len(s)))
  ELSE IF signed /\ s # <<>> /\ Head(s) = "+" THEN number(Tail(s), 1, Len(s))
  ELSE number(s, 1, width)

\* The items of <DateTime<FixedOffset> as FromStr>::from_str.
Space == [i |-> "space"]

Literal(c) == [i |-> "literal", c |-> c]

Numeric(field, width, signed) == [i |-> "numeric", f |-> field, w |-> width, signed |-> signed]

ITEMS ==
  << Space, Numeric("year", 4, TRUE), Space, Literal("-"),
     Space, Numeric("month", 2, FALSE), Space, Literal("-"),
     Space, Numeric("day", 2, FALSE), Space, Literal("T"),
     Space, Numeric("hour", 2, FALSE), Space, Literal(":"),
     Space, Numeric("minute", 2, FALSE), Space, Literal(":"),
     Space, Numeric("second", 2, FALSE), [i |-> "nanosecond"],
     Space, [i |-> "offset"], Space >>

\* What an item leaves: the rest of the input and the fields set so far.
Parsing(s, parsed) == Ok([s |-> s, parsed |-> parsed])

\* Parsed::set_*(v) after a scan.
set_field(f, r, parsed) ==
  IF ~r.ok THEN r ELSE Parsing(r.val.rest, (f :> r.val.v) @@ parsed)

\* One item of format::parse applied to the input.
apply_item(item, s, parsed) ==
  CASE item.i = "space" -> Parsing(trim_left(s), parsed)
    [] item.i = "literal" ->
         IF s = <<>> THEN TOO_SHORT
         ELSE IF Head(s) # item.c THEN INVALID
         ELSE Parsing(Tail(s), parsed)
    [] item.i = "numeric" -> set_field(item.f, numeric(s, item.w, item.signed), parsed)
    [] item.i = "nanosecond" ->
         IF s # <<>> /\ Head(s) = "." THEN set_field("nanosecond", nanosecond(Tail(s)), parsed)
         ELSE Parsing(s, parsed)
    [] item.i = "offset" -> set_field("offset", timezone_offset_zulu(trim_left(s)), parsed)

RECURSIVE parse(_, _, _)
RECURSIVE parse_next(_, _)

\* format::parse: the items in order; input left at the end is an error.
parse(items, s, parsed) ==
  IF items = <<>> THEN (IF s = <<>> THEN Ok(parsed) ELSE TOO_LONG)
  ELSE parse_next(apply_item(Head(items), s, parsed), Tail(items))

parse_next(r, items) == IF ~r.ok THEN r ELSE parse(items, r.val.s, r.val.parsed)

MAX_YEAR == 262143

MIN_YEAR == -262144

\* The instant of a local date and time at an offset.
instant_at(days, local, nanos, offset) ==
  Instant(days + ((local - offset) \div SECS_PER_DAY), (local - offset) % SECS_PER_DAY, nanos)

\* Parsed::to_datetime, then with_timezone(&Utc): the fields must be a date,
\* a time (second 60 is a leap second) and an offset of less than a day.
to_datetime(p) ==
  IF \/ p.year < MIN_YEAR \/ p.year > MAX_YEAR
     \/ p.month < 1 \/ p.month > 12
     \/ p.day < 1 \/ p.day > days_in_month(p.year, p.month)
     \/ p.hour > 23 \/ p.minute > 59 \/ p.second > 60
     \/ p.offset <= -SECS_PER_DAY \/ p.offset >= SECS_PER_DAY
  THEN OUT_OF_RANGE
  ELSE Ok(instant_at(days_from_civil(p.year, p.month, p.day),
                     p.hour * 3600 + p.minute * 60 + (IF p.second = 60 THEN 59 ELSE p.second),
                     p.nanosecond + (IF p.second = 60 THEN NANOS_PER_SEC ELSE 0),
                     p.offset))

\* and_then(to_datetime)
and_to_datetime(r) == IF ~r.ok THEN r ELSE to_datetime(r.val)

\* <DateTime<FixedOffset> as FromStr>::from_str, then with_timezone(&Utc).
\* The nanosecond is 0 unless the input sets it.
parse_datetime(s) == and_to_datetime(parse(ITEMS, s, ("nanosecond" :> 0)))

\* <DateTime<Utc> as Deserialize>: a string, parsed.
deserialize_datetime(node) ==
  IF node.k # "str" THEN Err("invalid type: expected a formatted date and time string")
  ELSE parse_datetime(node.s)

(***************************************************************************)
(* Values: FirestoreType                                                   *)
(***************************************************************************)
Integer(n) == [t |-> "Integer", n |-> n]

Boolean(b) == [t |-> "Boolean", b |-> b]

String(s) == [t |-> "String", s |-> s]

GeoLocation(lat, lon) == [t |-> "GeoLocation", latitude |-> lat, longitude |-> lon]

Array(values) == [t |-> "Array", values |-> values]

Map(fields) == [t |-> "Map", fields |-> fields]

Timestamp(at) == [t |-> "Timestamp", at |-> at]

Null == [t |-> "Null"]

\* An empty HashMap.
EmptyMap == [x \in {} |-> Null]

\* The serde names of the variants of FirestoreType (its rename attributes).
VARIANTS ==
  {"integerValue", "booleanValue", "stringValue", "geoPointValue",
   "arrayValue", "mapValue", "timestampValue", "nullValue"}

\* The fields of the derived structs, in declaration order: <<name, type>>.
GeoPointFields == << <<"latitude", "i32">>, <<"longitude", "i32">> >>

ArrayFields == << <<"values", "Vec<FirestoreType>">> >>

MapFields == << <<"fields", "FirestoreFields">> >>

DocumentFields ==
  << <<"name", "String">>, <<"fields", "FirestoreFields">>,
     <<"createTime", "DateTime<Utc>">>, <<"updateTime", "DateTime<Utc>">> >>

field_names(fields) == {fields[i][1] : i \in 1..Len(fields)}

field_type(fields, name) ==
  fields[CHOOSE i \in 1..Len(fields) : fields[i][1] = name][2]

RECURSIVE deserialize_FirestoreType(_)
RECURSIVE deserialize_as(_, _)
RECURSIVE visit_map(_, _, _)
RECURSIVE visit_map_value(_, _, _, _, _)
RECURSIVE visit_seq(_, _, _, _)
RECURSIVE visit_seq_value(_, _, _, _, _)
RECURSIVE vec_elements(_, _)
RECURSIVE vec_push(_, _, _)
RECURSIVE map_entries(_, _)
RECURSIVE map_insert(_, _, _, _)

\* The derived visit_map of a struct: members are read in order; a known
\* field met twice is an error, an unknown one is skipped, and a field not
\* met at the end is an error (no field here has a default).
visit_map(members, fields, acc) ==
  IF members = <<>>
  THEN IF field_names(fields) \subseteq DOMAIN acc THEN Ok(acc) ELSE Err("missing field")
  ELSE IF Head(members)[1] \notin field_names(fields) THEN visit_map(Tail(members), fields, acc)
  ELSE IF Head(members)[1] \in DOMAIN acc THEN Err("duplicate field")
  ELSE visit_map_value(deserialize_as(field_type(fields, Head(members)[1]), Head(members)[2]),
                       Head(members)[1], Tail(members), fields, acc)

\* next_value()? of visit_map: the field's error ends it, its value is kept.
visit_map_value(r, key, rest, fields, acc) ==
  IF ~r.ok THEN r ELSE visit_map(rest, fields, (key :> r.val) @@ acc)

\* The derived visit_seq of a struct from its i-th field on, and serde_json's
\* end of the sequence.
visit_seq(i, items, fields, acc) ==
  IF i > Len(fields)
  THEN IF Len(items) > Len(fields) THEN Err("trailing characters") ELSE Ok(acc)
  ELSE IF i > Len(items) THEN Err("invalid length")
  ELSE visit_seq_value(deserialize_as(fields[i][2], items[i]), i, items, fields, acc)

\* next_element()? of visit_seq.
visit_seq_value(r, i, items, fields, acc) ==
  IF ~r.ok THEN r ELSE visit_seq(i + 1, items, fields, (fields[i][1] :> r.val) @@ acc)

\* Deserializer::deserialize_struct of serde_json: an object or an array.
deserialize_struct(node, fields) ==
  IF node.k = "obj" THEN visit_map(node.members, fields, EmptyMap)
  ELSE IF node.k = "arr" THEN visit_seq(1, node.items, fields, EmptyMap)
  ELSE Err("invalid type: expected struct")

\* <Vec<FirestoreType> as Deserialize>: elements in order, the first error ends it.
vec_elements(items, acc) ==
  IF items = <<>> THEN Ok(acc)
  ELSE vec_push(deserialize_FirestoreType(Head(items)), Tail(items), acc)

\* A mutation: each element is put before the ones already read.
vec_push_reversed(r, rest, acc) ==
  IF ~r.ok THEN r ELSE vec_elements(rest, <<r.val>> \o acc)

vec_push(r, rest, acc) == IF ~r.ok THEN r ELSE vec_elements(rest, Append(acc, r.val))

deserialize_vec(node) ==
  IF node.k = "arr" THEN vec_elements(node.items, <<>>)
  ELSE Err("invalid type: expected a sequence")

\* <HashMap<String, FirestoreType> as Deserialize>: members in order, the
\* first error ends it; a repeated key replaces the earlier entry.
map_entries(members, acc) ==
  IF members = <<>> THEN Ok(acc)
  ELSE map_insert(deserialize_FirestoreType(Head(members)[2]), Head(members)[1],
                  Tail(members), acc)

\* A mutation: a member that fails is left out and the rest is kept.
map_insert_skipping(r, key, rest, acc) ==
  IF ~r.ok THEN map_entries(rest, acc) ELSE map_entries(rest, (key :> r.val) @@ acc)

\* A mutation: the error of a member is replaced by the member's name.
map_insert_named(r, key, rest, acc) ==
  IF ~r.ok THEN Err(key) ELSE map_entries(rest, (key :> r.val) @@ acc)

map_insert(r, key, rest, acc) ==
  IF ~r.ok THEN r ELSE map_entries(rest, (key :> r.val) @@ acc)

\* FirestoreFields, a newtype of the HashMap.
deserialize_FirestoreFields(node) ==
  IF node.k = "obj" THEN map_entries(node.members, EmptyMap)
  ELSE Err("invalid type: expected a map")

deserialize_as(ty, node) ==
  CASE ty = "i32" -> deserialize_i32(node)
    [] ty = "String" -> deserialize_string(node)
    [] ty = "DateTime<Utc>" -> deserialize_datetime(node)
    [] ty = "Vec<FirestoreType>" -> deserialize_vec(node)
    [] ty = "FirestoreFields" -> deserialize_FirestoreFields(node)

\* struct GeoPoint
deserialize_GeoPoint(node) == deserialize_struct(node, GeoPointFields)

\* struct Array
deserialize_Array(node) == deserialize_struct(node, ArrayFields)

\* struct Map
deserialize_Map(node) == deserialize_struct(node, MapFields)

\* The payload each variant of FirestoreType is deserialized from.
deserialize_payload(key, payload) ==
  CASE key = "integerValue" -> deserialize_number_from_string(payload)
    [] key = "booleanValue" -> deserialize_bool(payload)
    [] key = "stringValue" -> deserialize_string(payload)
    [] key = "geoPointValue" -> deserialize_GeoPoint(payload)
    [] key = "arrayValue" -> deserialize_Array(payload)
    [] key = "mapValue" -> deserialize_Map(payload)
    [] key = "timestampValue" -> deserialize_datetime(payload)
    [] key = "nullValue" -> deserialize_unit(payload)

\* The variant built around a payload.
variant_of(key, p) ==
  CASE key = "integerValue" -> Integer(NumOfI32(p))
    [] key = "booleanValue" -> Boolean(p)
    [] key = "stringValue" -> String(p)
    [] key = "geoPointValue" -> GeoLocation(NumOfI32(p.latitude), NumOfI32(p.longitude))
    [] key = "arrayValue" -> Array(p.values)
    [] key = "mapValue" -> Map(p.fields)
    [] key = "timestampValue" -> Timestamp(p)
    [] key = "nullValue" -> Null

\* Result::map(|p| variant)
map_variant(key, r) == IF r.ok THEN Ok(variant_of(key, r.val)) ELSE r

deserialize_variant(key, payload) == map_variant(key, deserialize_payload(key, payload))

NullValueText == <<"n", "u", "l", "l", "V", "a", "l", "u", "e">>

\* A mutation: members after the first are not looked at.
end_enum_first_match(r, members) == r

\* serde_json's deserialize_enum after the variant is read: the object must
\* end there.
end_enum(r, members) ==
  IF ~r.ok THEN r
  ELSE IF Len(members) > 1 THEN Err("expected value")
  ELSE r

\* A mutation: an object without a known variant falls through to Null.
deserialize_FirestoreType_fallthrough(node) ==
  IF node.k # "obj" THEN Err("expected value")
  ELSE IF node.members = <<>> THEN Ok(Null)
  ELSE IF node.members[1][1] \notin VARIANTS THEN Ok(Null)
  ELSE end_enum(deserialize_variant(node.members[1][1], node.members[1][2]), node.members)

\* The derived Deserialize of the externally tagged enum FirestoreType over
\* serde_json's deserialize_enum: an object of exactly one member whose key
\* names the variant, or a bare string naming a unit variant.
deserialize_FirestoreType(node) ==
  IF node.k = "str"
  THEN (IF node.s = NullValueText THEN Ok(Null) ELSE Err("unknown or non-unit variant"))
  ELSE IF node.k # "obj" THEN Err("expected value")
  ELSE IF node.members = <<>> THEN Err("expected value")
  ELSE IF node.members[1][1] \notin VARIANTS THEN Err("unknown variant")
  ELSE end_enum(deserialize_variant(node.members[1][1], node.members[1][2]), node.members)

(***************************************************************************)
(* The document requests (DatabaseContext)                                 *)
(***************************************************************************)
\* errors::http_error
http_error(e) == <<"Failed to get response from firestore: ", e>>

\* errors::json_decode_error
json_decode_error(e) == <<"Failed to decode JSON: ", e>>

\* .map_err(errors::json_decode_error)
map_json_decode_error(r) == IF r.ok THEN r ELSE Err(json_decode_error(r.err))

\* struct Document
deserialize_Document(node) == deserialize_struct(node, DocumentFields)

\* retrieve_document: send, then response.json::<Document>().  A response
\* is [sent, error, body]: whether the transport delivered one, the
\* transport's error otherwise, and the JSON of the body.
retrieve_document(response) ==
  IF ~response.sent THEN Err(http_error(response.error))
  ELSE map_json_decode_error(deserialize_Document(response.body))

\* delete_document_at_path: the same two steps on the DELETE response.
delete_document_at_path(response) ==
  IF ~response.sent THEN Err(http_error(response.error))
  ELSE map_json_decode_error(deserialize_Document(response.body))

(***************************************************************************)
(* The encoder.  src/ holds none (FirestoreType derives Deserialize only): *)
(* this is the encoder the specification describes in its section 4.3.     *)
(***************************************************************************)
\* decimal-string(n)
decimal_string(num) ==
  (IF num.neg THEN <<"-">> ELSE <<>>) \o [i \in 1..Len(num.ip) |-> from_digit(num.ip[i])]

\* n as exactly w decimal digits.
RECURSIVE pad(_, _)
pad(n, w) == IF w = 0 THEN <<>> ELSE Append(pad(n \div 10, w - 1), from_digit(n % 10))

\* RFC3339-string(t): nanosecond precision, trailing Z.
rfc3339_string(at) ==
  LET ymd  == civil_from_days(at.days)
      leap == at.nanos >= NANOS_PER_SEC
      sec  == (at.secs % 60) + (IF leap THEN 1 ELSE 0)
      ns   == IF leap THEN at.nanos - NANOS_PER_SEC ELSE at.nanos
  IN pad(ymd[1], 4) \o <<"-">> \o pad(ymd[2], 2) \o <<"-">> \o pad(ymd[3], 2) \o <<"T">>
     \o pad(at.secs \div 3600, 2) \o <<":">> \o pad((at.secs \div 60) % 60, 2) \o <<":">>
     \o pad(sec, 2) \o <<".">> \o pad(ns, 9) \o <<"Z">>

\* A mutation: every nested wire value gets a second recognized key.
RECURSIVE members_of_two_tags(_, _)
members_of_two_tags(names, node_of) ==
  IF names = {} THEN <<>>
  ELSE LET n == CHOOSE x \in names : TRUE IN
       <<<<n, JObj(Append(node_of[n].members, <<"nullValue", JNull>>))>>>>
         \o members_of_two_tags(names \ {n}, node_of)

\* The members of an object in a fixed order of their names.
RECURSIVE members_of(_, _)
members_of(names, node_of) ==
  IF names = {} THEN <<>>
  ELSE LET n == CHOOSE x \in names : TRUE IN
       <<<<n, node_of[n]>>>> \o members_of(names \ {n}, node_of)

\* The payload of integerValue, a mutation: the number itself.
encode_integer_as_number(n) == JNum(n)

\* The payload of integerValue: the decimal text, as a JSON string.
encode_integer(n) == JStr(decimal_string(n))

RECURSIVE encode_field(_)
encode_field(v) ==
  CASE v.t = "Integer" -> JObj(<< <<"integerValue", encode_integer(v.n)>> >>)
    [] v.t = "Boolean" -> JObj(<< <<"booleanValue", JBool(v.b)>> >>)
    [] v.t = "String" -> JObj(<< <<"stringValue", JStr(v.s)>> >>)
    [] v.t = "Null" -> JObj(<< <<"nullValue", JNull>> >>)
    [] v.t = "GeoLocation" ->
         JObj(<< <<"geoPointValue",
                   JObj(<< <<"latitude", JNum(v.latitude)>>,
                           <<"longitude", JNum(v.longitude)>> >>)>> >>)
    [] v.t = "Timestamp" -> JObj(<< <<"timestampValue", JStr(rfc3339_string(v.at))>> >>)
    [] v.t = "Array" ->
         JObj(<< <<"arrayValue",
                   JObj(<< <<"values",
                             JArr([i \in 1..Len(v.values) |-> encode_field(v.values[i])])>> >>)>> >>)
    [] v.t = "Map" ->
         JObj(<< <<"mapValue",
                   JObj(<< <<"fields",
                             JObj(members_of(DOMAIN v.fields,
                                    [n \in DOMAIN v.fields |-> encode_field(v.fields[n])]))>> >>)>> >>)

(***************************************************************************)
(* Sample texts and numbers                                                *)
(***************************************************************************)
TxtHundred == <<"1", "0", "0">>

TxtFour == <<"4">>

TxtMinusFive == <<"-", "5">>

TxtPlusFive == <<"+", "5">>

TxtLeadingZero == <<"0", "0", "7">>

TxtI32Max == <<"2", "1", "4", "7", "4", "8", "3", "6", "4", "7">>

TxtI32MaxPlus1 == <<"2", "1", "4", "7", "4", "8", "3", "6", "4", "8">>

TxtI32Min == <<"-", "2", "1", "4", "7", "4", "8", "3", "6", "4", "8">>

TxtI32MinMinus1 == <<"-", "2", "1", "4", "7", "4", "8", "3", "6", "4", "9">>

TxtI64Max == <<"9", "2", "2", "3", "3", "7", "2", "0", "3", "6", "8", "5", "4", "7", "7", "5", "8", "0", "7">>

TxtI64MaxPlus1 == <<"9", "2", "2", "3", "3", "7", "2", "0", "3", "6", "8", "5", "4", "7", "7", "5", "8", "0", "8">>

TxtI64Min == <<"-", "9", "2", "2", "3", "3", "7", "2", "0", "3", "6", "8", "5", "4", "7", "7", "5", "8", "0", "8">>

TxtI64MinMinus1 == <<"-", "9", "2", "2", "3", "3", "7", "2", "0", "3", "6", "8", "5", "4", "7", "7", "5", "8", "0", "9">>

TxtAbc == <<"a", "b", "c">>

TxtEmpty == <<>>

TxtFast == <<"f", "a", "s", "t">>

TxtOops == <<"o", "o", "p", "s">>

TxtNullValueWord == <<"N", "U", "L", "L", "_", "V", "A", "L", "U", "E">>

TxtFraction == <<"1", ".", "5">>

TxtMinus == <<"-">>

TxtStampNanos == <<"2", "0", "2", "4", "-", "0", "1", "-", "1", "5", "T", "1", "0", ":", "3", "0", ":", "0", "0", ".", "1", "2", "3", "4", "5", "6", "7", "8", "9", "Z">>

TxtStampSeconds == <<"2", "0", "2", "4", "-", "0", "1", "-", "1", "5", "T", "1", "0", ":", "3", "0", ":", "0", "0", "Z">>

TxtStampOffset == <<"2", "0", "2", "4", "-", "0", "1", "-", "1", "5", "T", "0", "0", ":", "3", "0", ":", "0", "0", ".", "5", "+", "0", "2", ":", "0", "0">>

TxtStampBadMonth == <<"2", "0", "2", "4", "-", "1", "3", "-", "1", "5", "T", "1", "0", ":", "3", "0", ":", "0", "0", "Z">>

TxtStampNoZone == <<"2", "0", "2", "4", "-", "0", "1", "-", "1", "5", "T", "1", "0", ":", "3", "0", ":", "0", "0">>

TxtStampLeapSecond == <<"2", "0", "1", "6", "-", "1", "2", "-", "3", "1", "T", "2", "3", ":", "5", "9", ":", "6", "0", ".", "0", "0", "0", "0", "0", "0", "0", "0", "1", "Z">>

TxtStampLeapDay == <<"2", "0", "2", "4", "-", "0", "2", "-", "2", "9", "T", "2", "3", ":", "5", "9", ":", "5", "9", ".", "9", "9", "9", "9", "9", "9", "9", "9", "9", "Z">>

TxtStampNoLeapDay == <<"2", "0", "2", "3", "-", "0", "2", "-", "2", "9", "T", "1", "0", ":", "3", "0", ":", "0", "0", ".", "1", "2", "3", "4", "5", "6", "7", "8", "9", "Z">>

TxtStampUnpadded == <<"2", "0", "2", "4", "-", "1", "-", "1", "5", "T", "1", "0", ":", "3", "0", ":", "0", "0", "Z">>

TxtStampSpaced == <<"2", "0", "2", "4", "-", "0", "1", "-", "1", "5", "T", "1", "0", ":", "3", "0", ":", "0", "0", " ", "Z">>

TxtStampBadOffset == <<"2", "0", "2", "4", "-", "0", "1", "-", "1", "5", "T", "1", "0", ":", "3", "0", ":", "0", "0", "+", "2", "4", ":", "0", "0">>

TxtStampTrailing == <<"2", "0", "2", "4", "-", "0", "1", "-", "1", "5", "T", "1", "0", ":", "3", "0", ":", "0", "0", "Z", "x">>

TxtStampDateOnly == <<"2", "0", "2", "4", "-", "0", "1", "-", "1", "5">>

TxtDocName == <<"p", "r", "o", "j", "e", "c", "t", "s", "/", "p", "/", "d", "a", "t", "a", "b", "a", "s", "e", "s", "/", "(", "d", "e", "f", "a", "u", "l", "t", ")", "/", "d", "o", "c", "u", "m", "e", "n", "t", "s", "/", "c", "a", "r", "s", "/", "1">>

NumHundred == Num(FALSE, <<1, 0, 0>>, <<>>)

NumMinusFive == Num(TRUE, <<5>>, <<>>)

NumZero == Num(FALSE, <<0>>, <<>>)

NumFour == Num(FALSE, <<4>>, <<>>)

NumI32Max == Num(FALSE, <<2, 1, 4, 7, 4, 8, 3, 6, 4, 7>>, <<>>)

NumI32MaxPlus1 == Num(FALSE, <<2, 1, 4, 7, 4, 8, 3, 6, 4, 8>>, <<>>)

NumI32Min == Num(TRUE, <<2, 1, 4, 7, 4, 8, 3, 6, 4, 8>>, <<>>)

NumI32MinMinus1 == Num(TRUE, <<2, 1, 4, 7, 4, 8, 3, 6, 4, 9>>, <<>>)

NumI64Max == Num(FALSE, <<9, 2, 2, 3, 3, 7, 2, 0, 3, 6, 8, 5, 4, 7, 7, 5, 8, 0, 7>>, <<>>)

NumI64Min == Num(TRUE, <<9, 2, 2, 3, 3, 7, 2, 0, 3, 6, 8, 5, 4, 7, 7, 5, 8, 0, 8>>, <<>>)

NumLat == Num(FALSE, <<4, 0>>, <<7>>)

NumLon == Num(TRUE, <<7, 4>>, <<0>>)

NumForty == Num(FALSE, <<4, 0>>, <<>>)

NumFortyPointZero == Num(FALSE, <<4, 0>>, <<0>>)

NumMinus74 == Num(TRUE, <<7, 4>>, <<>>)

(***************************************************************************)
(* Inputs                                                                  *)
(***************************************************************************)
\* An object of one member.
Tagged(key, payload) == JObj(<< <<key, payload>> >>)

\* An object of two members, in this order.
Tagged2(k1, p1, k2, p2) == JObj(<< <<k1, p1>>, <<k2, p2>> >>)

GeoObj(lat, lon) == JObj(<< <<"latitude", lat>>, <<"longitude", lon>> >>)

\* Payloads of every JSON kind, well formed and not, for every key.
Payloads ==
  {JNull, JBool(TRUE), JBool(FALSE),
   JNum(NumHundred), JNum(NumMinusFive), JNum(NumLat), JNum(NumI32MaxPlus1),
   JStr(TxtHundred), JStr(TxtMinusFive), JStr(TxtPlusFive), JStr(TxtLeadingZero),
   JStr(TxtI32Max), JStr(TxtI32MaxPlus1), JStr(TxtI32Min), JStr(TxtI32MinMinus1),
   JStr(TxtI64Max), JStr(TxtI64MaxPlus1), JStr(TxtI64Min), JStr(TxtI64MinMinus1),
   JStr(TxtAbc), JStr(TxtEmpty), JStr(TxtMinus), JStr(TxtFraction), JStr(TxtNullValueWord),
   JStr(TxtStampNanos), JStr(TxtStampSeconds), JStr(TxtStampOffset),
   JStr(TxtStampBadMonth), JStr(TxtStampNoZone),
   JStr(TxtStampLeapSecond), JStr(TxtStampLeapDay), JStr(TxtStampNoLeapDay),
   JStr(TxtStampUnpadded), JStr(TxtStampSpaced), JStr(TxtStampBadOffset),
   JStr(TxtStampTrailing), JStr(TxtStampDateOnly),
   JObj(<<>>), JArr(<<>>),
   GeoObj(JNum(NumForty), JNum(NumMinus74)), GeoObj(JNum(NumLat), JNum(NumLon)),
   GeoObj(JNum(NumLat), JStr(TxtOops)), GeoObj(JNum(NumForty), JStr(TxtOops)),
   GeoObj(JNum(NumFortyPointZero), JNum(NumMinus74)),
   JObj(<< <<"latitude", JNum(NumForty)>> >>), JObj(<< <<"longitude", JNum(NumMinus74)>> >>),
   JArr(<<JNum(NumForty), JNum(NumMinus74)>>),
   JObj(<< <<"values", JArr(<<>>)>> >>), JObj(<< <<"fields", JObj(<<>>)>> >>),
   JObj(<< <<"values", JNull>> >>), JObj(<< <<"fields", JNull>> >>)}

\* The payload Firestore sends under each key.
GoodPayload(key) ==
  CASE key = "integerValue" -> JStr(TxtHundred)
    [] key = "booleanValue" -> JBool(TRUE)
    [] key = "stringValue" -> JStr(TxtFast)
    [] key = "nullValue" -> JNull
    [] key = "geoPointValue" -> GeoObj(JNum(NumForty), JNum(NumMinus74))
    [] key = "timestampValue" -> JStr(TxtStampNanos)
    [] key = "arrayValue" -> JObj(<< <<"values", JArr(<<>>)>> >>)
    [] key = "mapValue" -> JObj(<< <<"fields", JObj(<<>>)>> >>)
    [] OTHER -> JStr(TxtAbc)

UnknownKeys == {"doubleValue", "value"}

\* One-member wire objects: every key with every payload.
FlatWires == {Tagged(key, p) : key \in VARIANTS \cup UnknownKeys, p \in Payloads}

\* Objects of two members: every ordered pair of keys, known or not.
TwoKeyWires ==
  {Tagged2(k1, GoodPayload(k1), k2, GoodPayload(k2)) :
     k1 \in VARIANTS \cup UnknownKeys, k2 \in VARIANTS \cup UnknownKeys}
  \cup {Tagged2(k1, JNum(NumLat), k2, GoodPayload(k2)) : k1 \in VARIANTS, k2 \in VARIANTS}
  \cup {JObj(<< <<k1, GoodPayload(k1)>>, <<"mapValue", GoodPayload("mapValue")>>,
                 <<k3, GoodPayload(k3)>> >>) : k1 \in VARIANTS, k3 \in {"nullValue", "value"}}

\* Wire values nested in arrays and maps start from these.
Seeds ==
  {Tagged("integerValue", JStr(TxtFour)), Tagged("stringValue", JStr(TxtFast)),
   Tagged("nullValue", JNull), Tagged("booleanValue", JBool(FALSE)),
   Tagged("integerValue", JStr(TxtAbc)), JObj(<<>>),
   Tagged("arrayValue", JObj(<<>>)), Tagged("mapValue", JObj(<<>>))}

GoodSeed == Tagged("integerValue", JStr(TxtFour))

BadSeed == Tagged("stringValue", JNum(NumHundred))

WireArray(items) == Tagged("arrayValue", JObj(<< <<"values", JArr(items)>> >>))

WireMap(members) == Tagged("mapValue", JObj(<< <<"fields", JObj(members)>> >>))

\* One more level of nesting around the wire values of S.
Nest(S) ==
  {WireArray(<<w>>) : w \in S} \cup {WireArray(<<GoodSeed, w>>) : w \in S}
  \cup {WireArray(<<w, BadSeed>>) : w \in S}
  \cup {WireMap(<< <<"wheels", w>> >>) : w \in S}
  \cup {WireMap(<< <<"wheels", GoodSeed>>, <<"tags", w>> >>) : w \in S}
  \cup {WireMap(<< <<"wheels", w>>, <<"wheels", GoodSeed>> >>) : w \in S}

RECURSIVE NestedWires(_)
NestedWires(depth) ==
  IF depth = 0 THEN Seeds ELSE Nest(NestedWires(depth - 1))

\* The nested example of the specification's section 8.
NestedExample ==
  WireMap(<< <<"wheels", Tagged("integerValue", JStr(TxtFour))>>,
             <<"tags", WireArray(<<Tagged("stringValue", JStr(TxtFast)),
                                   Tagged("nullValue", JNull)>>)>> >>)

\* JSON that is no object at all.
BareNodes == {JNull, JBool(TRUE), JNum(NumHundred), JStr(TxtAbc), JStr(NullValueText), JArr(<<>>)}

\* Objects of fields, as under a document's `fields`.
FieldObjects ==
  {JObj(<<>>), JObj(<< <<"wheels", GoodSeed>> >>), JObj(<< <<"wheels", BadSeed>> >>),
   JObj(<< <<"wheels", GoodSeed>>, <<"tags", BadSeed>> >>),
   JObj(<< <<"wheels", BadSeed>>, <<"tags", GoodSeed>> >>),
   JObj(<< <<"wheels", GoodSeed>>, <<"tags", Tagged("nullValue", JNull)>> >>),
   JObj(<< <<"wheels", GoodSeed>>, <<"wheels", Tagged("nullValue", JNull)>> >>),
   JObj(<< <<"wheels", GoodSeed>>, <<"tags", WireArray(<<GoodSeed, BadSeed>>)>> >>),
   JObj(<< <<"wheels", GoodSeed>>, <<"tags", WireArray(<<GoodSeed, GoodSeed>>)>> >>),
   JObj(<< <<"a", Tagged("integerValue", JStr(TxtAbc))>>, <<"b", JObj(<<>>)>> >>),
   JObj(<< <<"a", JObj(<<>>)>>, <<"b", Tagged("integerValue", JStr(TxtAbc))>> >>),
   JObj(<< <<"car", NestedExample>> >>)}

\* Bodies of a document response.
DocumentBody(fields) ==
  JObj(<< <<"name", JStr(TxtDocName)>>, <<"fields", fields>>,
          <<"createTime", JStr(TxtStampSeconds)>>, <<"updateTime", JStr(TxtStampNanos)>> >>)

DocumentBodies ==
  {DocumentBody(f) : f \in FieldObjects}
  \cup {JObj(<< <<"name", JStr(TxtDocName)>>, <<"createTime", JStr(TxtStampSeconds)>>,
                 <<"updateTime", JStr(TxtStampNanos)>> >>),
        JObj(<< <<"error", JObj(<< <<"code", JNum(NumHundred)>> >>)>> >>)}

JsonInputs ==
  FlatWires \cup TwoKeyWires \cup BareNodes \cup FieldObjects \cup DocumentBodies
  \cup {NestedExample} \cup UNION {NestedWires(d) : d \in 1..MaxDepth}

\* Values handed to the encoder.
ScalarValues ==
  {Integer(NumHundred), Integer(NumMinusFive), Integer(NumZero),
   Integer(NumI32Max), Integer(NumI32Min), Integer(NumI32MaxPlus1), Integer(NumI32MinMinus1),
   Integer(NumI64Max), Integer(NumI64Min),
   Boolean(TRUE), Boolean(FALSE), String(TxtFast), String(TxtEmpty), String(TxtHundred), Null,
   GeoLocation(NumLat, NumLon), GeoLocation(NumFortyPointZero, NumLon),
   Timestamp(Instant(19737, 37800, 123456789)), Timestamp(Instant(0, 0, 0)),
   Timestamp(Instant(19782, 86399, 999999999))}

NestValues(S) ==
  {Array(<<v>>) : v \in S} \cup {Array(<<Integer(NumFour), v>>) : v \in S}
  \cup {Map(("wheels" :> v)) : v \in S}
  \cup {Map(("wheels" :> Integer(NumFour)) @@ ("tags" :> v)) : v \in S}

RECURSIVE NestedValues(_)
NestedValues(depth) ==
  IF depth = 0 THEN {Integer(NumFour), String(TxtFast), Null, Array(<<>>), Map(EmptyMap)}
  ELSE NestValues(NestedValues(depth - 1))

ValueInputs == ScalarValues \cup UNION {NestedValues(d) : d \in 0..MaxDepth}

(***************************************************************************)
(* The export and import requests of src/src/firesale.rs.  A value of the  *)
(* generic S: Into<String> is a borrowed str, [str |-> text]; a String is  *)
(* the text itself.                                                        *)
(***************************************************************************)
\* Length of the vectors handed to all_into.
MaxVec == 3

FIRESTORE_BETA_API_URL ==
  <<"h", "t", "t", "p", "s", ":", "/", "/", "f", "i", "r", "e", "s", "t", "o", "r", "e", ".",
    "g", "o", "o", "g", "l", "e", "a", "p", "i", "s", ".", "c", "o", "m", "/", "v", "1", "b",
    "e", "t", "a", "2">>

IMPORT_DOCUMENTS_FUNCTION_NAME == <<"i", "m", "p", "o", "r", "t", "D", "o", "c", "u", "m", "e", "n", "t", "s">>

EXPORT_DOCUMENTS_FUNCTION_NAME == <<"e", "x", "p", "o", "r", "t", "D", "o", "c", "u", "m", "e", "n", "t", "s">>

\* A &str.
Str(text) == [str |-> text]

\* <&str as Into<String>>::into
into(item) == item.str

RECURSIVE map_collect(_, _)
\* source.into_iter().map(|item| item.into()).collect::<Vec<T>>()
map_collect(source, collected) ==
  IF source = <<>> THEN collected
  ELSE map_collect(Tail(source), Append(collected, into(Head(source))))

\* A mutation: the items are collected in reverse.
all_into_reversed(source) ==
  [i \in 1..Len(source) |-> into(source[Len(source) + 1 - i])]

all_into(source) == map_collect(source, <<>>)

\* A mutation: the function and the name change places.
make_url_swapped(function, name) ==
  FIRESTORE_BETA_API_URL \o <<"/", "{", "n", "a", "m", "e", "=">> \o into(function)
    \o <<"}", ":">> \o into(name)

\* format!("{}/{{name={}}}:{}", FIRESTORE_BETA_API_URL, name.into(), function.into())
make_url(function, name) ==
  FIRESTORE_BETA_API_URL \o <<"/", "{", "n", "a", "m", "e", "=">> \o into(name)
    \o <<"}", ":">> \o into(function)

\* client.post(url).json(&body)
Post(url, body) == [url |-> url, body |-> body]

\* .send()?.json::<Operation<NullResponse>>().map_err(Error::from): the
\* transport's error, or what reading the body as an Operation gave.
\* A reply is [sent, error, json].
operation_of(reply) ==
  IF ~reply.sent THEN Err(<<"Reqwest", reply.error>>)
  ELSE IF ~reply.json.ok THEN Err(<<"Reqwest", reply.json.err>>)
  ELSE reply.json

\* export_documents: the url of make_url is bound first and then shadowed
\* by the url formatted in place, which is the one posted to.
export_documents(database_to_export, collection_ids, output_uri_prefix, reply) ==
  LET made == make_url(Str(EXPORT_DOCUMENTS_FUNCTION_NAME), Str(into(database_to_export)))
      url  == FIRESTORE_BETA_API_URL \o <<"/", "{", "n", "a", "m", "e", "=">>
                \o into(database_to_export) \o <<"}", ":">>
                \o <<"e", "x", "p", "o", "r", "t", "D", "o", "c", "u", "m", "e", "n", "t", "s">>
  IN [posted |-> Post(url, [collectionIds |-> all_into(collection_ids),
                            outputUriPrefix |-> into(output_uri_prefix)]),
      returned |-> operation_of(reply)]

\* import_documents: posted to the url of make_url.
import_documents(database_to_import_into, collection_ids, input_uri_prefix, reply) ==
  [posted |-> Post(make_url(Str(IMPORT_DOCUMENTS_FUNCTION_NAME),
                            Str(into(database_to_import_into))),
                   [collectionIds |-> all_into(collection_ids),
                    inputUriPrefix |-> into(input_uri_prefix)]),
   returned |-> operation_of(reply)]

TxtTestDatabase == <<"p", "r", "o", "j", "e", "c", "t", "s", "/", "{", "p", "r", "o", "j", "e", "c", "t", "_", "i", "d", "}", "/", "d", "a", "t", "a", "b", "a", "s", "e", "s", "/", "{", "d", "a", "t", "a", "b", "a", "s", "e", "_", "i", "d", "}">>

TxtDefaultDatabase == <<"p", "r", "o", "j", "e", "c", "t", "s", "/", "p", "/", "d", "a", "t", "a", "b", "a", "s", "e", "s", "/", "(", "d", "e", "f", "a", "u", "l", "t", ")">>

TxtBucket == <<"g", "s", ":", "/", "/", "b">>

TxtHello == <<"h", "e", "l", "l", "o">>

TxtWorld == <<"w", "o", "r", "l", "d">>

TxtListDocuments == <<"l", "i", "s", "t", "D", "o", "c", "u", "m", "e", "n", "t", "s">>

\* Strs handed to the conversions.
Strs == {Str(TxtHello), Str(TxtWorld), Str(TxtEmpty)}

\* The vectors of at most n of them.
RECURSIVE Vectors(_)
Vectors(n) ==
  IF n = 0 THEN {<<>>}
  ELSE Vectors(n - 1) \cup {Append(v, s) : v \in {w \in Vectors(n - 1) : Len(w) = n - 1}, s \in Strs}

DatabaseNames == {Str(TxtTestDatabase), Str(TxtDefaultDatabase), Str(TxtEmpty)}

FunctionNames ==
  {Str(IMPORT_DOCUMENTS_FUNCTION_NAME), Str(EXPORT_DOCUMENTS_FUNCTION_NAME),
   Str(TxtListDocuments), Str(TxtEmpty)}

\* Replies to a posted request.
Replies ==
  {[sent |-> FALSE, error |-> "connection refused", json |-> Err("none")],
   [sent |-> TRUE, error |-> "none", json |-> Err("missing field")],
   [sent |-> TRUE, error |-> "none", json |-> Ok("operation")]}

DatabaseRequests ==
  {[is |-> "request", database |-> d, collection_ids |-> c, uri_prefix |-> Str(TxtBucket),
    reply |-> r] : d \in DatabaseNames, c \in Vectors(MaxVec), r \in Replies}

UrlInputs == {[is |-> "url", function |-> f, name |-> n] : f \in FunctionNames, n \in DatabaseNames}

VectorInputs == {[is |-> "vector", source |-> v] : v \in Vectors(MaxVec)}

(***************************************************************************)
(* The command line program: src/src/entrypoint.rs and src/src/main.rs     *)
(***************************************************************************)
\* The () of Ok(()).
Unit == "unit"

\* handle_document_get: `?` on get_document's result, then Ok(()).
handle_document_get(got) == IF ~got.ok THEN got ELSE Ok(Unit)

\* handle_document_delete: delete_document's result is bound and not looked
\* at; Ok(()) is returned.
handle_document_delete(deleted) == Ok(Unit)

\* struct Environment
Environment(service_account_path, project_id) ==
  [service_account_path |-> service_account_path, project_id |-> project_id]

\* gather_environment: the two variables of the process environment, an
\* Option each.
gather_environment(vars) ==
  Environment(vars.GOOGLE_APPLICATION_CREDENTIALS, vars.PROJECT_ID)

\* matches.value_of(name) of a positional argument at a place.
value_of(args, place) == IF Len(args) >= place THEN Some(args[place]) ELSE None

\* setup_arguments up to its Options: project_id and credentials are the
\* first two positional arguments, each required when the environment has
\* no value for it; get_matches ends the process on a missing required one.
setup_arguments(environ, args) ==
  IF \/ (~environ.project_id.some /\ ~value_of(args, 1).some)
     \/ (~environ.service_account_path.some /\ ~value_of(args, 2).some)
  THEN Err("error: The following required arguments were not provided")
  ELSE Ok(Environment(value_of(args, 2), value_of(args, 1)))

\* DatabaseContext::new as main sees it: the credentials file loads or not.
new_context(project_id, service_account_path, loads) ==
  IF loads THEN Ok([project_id |-> project_id, service_account_path |-> service_account_path])
  ELSE Err("Failed to load credentials from file")

NOT_PROVIDED ==
  Err("Failed to create database context, not provided in environment variables or cli args")

\* The block of main that makes the context: [attempted, context], the
\* arguments DatabaseContext::new was called with, if it was, and the result.
make_context(options, environment, loads) ==
  IF options.service_account_path.some /\ options.project_id.some
  THEN [attempted |-> Some(Environment(options.service_account_path.v, options.project_id.v)),
        context |-> new_context(options.project_id.v, options.service_account_path.v, loads)]
  ELSE IF environment.service_account_path.some /\ environment.project_id.some
  THEN [attempted |-> Some(Environment(environment.service_account_path.v,
                                       environment.project_id.v)),
        context |-> new_context(environment.project_id.v,
                                environment.service_account_path.v, loads)]
  ELSE [attempted |-> None, context |-> NOT_PROVIDED]

\* match entrypoint { ... }
dispatch(entrypoint, response) ==
  CASE entrypoint = "GetDocument" -> handle_document_get(retrieve_document(response))
    [] entrypoint = "DeleteDocument" ->
         handle_document_delete(delete_document_at_path(response))
    [] entrypoint = "Usage" -> Ok(Unit)

\* main after the context block: `?`, then the entry point.
run(made, entrypoint, response) ==
  [attempted |-> made.attempted,
   returned |-> IF ~made.context.ok THEN made.context ELSE dispatch(entrypoint, response)]

\* main after setup_arguments.
main_with(environment, setup, loads, entrypoint, response) ==
  IF ~setup.ok THEN [attempted |-> None, exited |-> TRUE, returned |-> setup]
  ELSE [exited |-> FALSE] @@ run(make_context(setup.val, environment, loads),
                                 entrypoint, response)

\* main
main(vars, args, loads, entrypoint, response) ==
  main_with(gather_environment(vars), setup_arguments(gather_environment(vars), args),
            loads, entrypoint, response)

TxtEnvProject == <<"e", "n", "v", "-", "p", "r", "o", "j", "e", "c", "t">>

TxtEnvKey == <<"/", "e", "n", "v", "/", "k", "e", "y", ".", "j", "s", "o", "n">>

TxtCliProject == <<"c", "l", "i", "-", "p", "r", "o", "j", "e", "c", "t">>

TxtCliKey == <<"/", "c", "l", "i", "/", "k", "e", "y", ".", "j", "s", "o", "n">>

\* The process environment: each variable set or not.
EnvironmentVars ==
  {[GOOGLE_APPLICATION_CREDENTIALS |-> c, PROJECT_ID |-> p] :
     c \in {None, Some(TxtEnvKey)}, p \in {None, Some(TxtEnvProject)}}

\* The positional arguments before the subcommand.
CommandLines == {<<>>, <<TxtCliProject>>, <<TxtCliProject, TxtCliKey>>}

(***************************************************************************)
(* The state: one input, the operation applied to it, and what it gave.    *)
(***************************************************************************)
VARIABLES input, op, result

vars == <<input, op, result>>

NoResult == [none |-> TRUE]

Response(node) == [sent |-> TRUE, error |-> "none", body |-> node]

TransportFailure == [sent |-> FALSE, error |-> "connection refused", body |-> JNull]

\* What main is started with.
Launches ==
  {[is |-> "launch", vars |-> v, args |-> a, loads |-> l, entrypoint |-> e, response |-> r] :
     v \in EnvironmentVars, a \in CommandLines, l \in BOOLEAN,
     e \in {"GetDocument", "DeleteDocument", "Usage"},
     r \in {TransportFailure, Response(DocumentBody(JObj(<< <<"wheels", GoodSeed>> >>))),
            Response(DocumentBody(JObj(<< <<"wheels", BadSeed>> >>)))}}

Init ==
  /\ input \in {[is |-> "json", node |-> n] : n \in JsonInputs}
              \cup {[is |-> "value", val |-> v] : v \in ValueInputs}
              \cup {[is |-> "failure"]}
              \cup DatabaseRequests \cup UrlInputs \cup VectorInputs
              \cup Launches
  /\ op = "idle"
  /\ result = NoResult

\* decode_field: a FirestoreType is deserialized from the node.
DecodeField ==
  /\ op = "idle" /\ input.is = "json"
  /\ result' = deserialize_FirestoreType(input.node)
  /\ op' = "decode_field"
  /\ UNCHANGED input

\* decode_fields: a FirestoreFields is deserialized from the node.
DecodeFields ==
  /\ op = "idle" /\ input.is = "json"
  /\ result' = deserialize_FirestoreFields(input.node)
  /\ op' = "decode_fields"
  /\ UNCHANGED input

\* get_document -> retrieve_document on the response to the GET.
RetrieveDocument ==
  /\ op = "idle" /\ input.is \in {"json", "failure"}
  /\ result' = retrieve_document(IF input.is = "json" THEN Response(input.node)
                                                      ELSE TransportFailure)
  /\ op' = "retrieve_document"
  /\ UNCHANGED input

\* delete_document -> delete_document_at_path on the response to the DELETE.
DeleteDocument ==
  /\ op = "idle" /\ input.is \in {"json", "failure"}
  /\ result' = delete_document_at_path(IF input.is = "json" THEN Response(input.node)
                                                             ELSE TransportFailure)
  /\ op' = "delete_document"
  /\ UNCHANGED input

\* encode_field on a value.
EncodeField ==
  /\ op = "idle" /\ input.is = "value"
  /\ result' = encode_field(input.val)
  /\ op' = "encode_field"
  /\ UNCHANGED input

\* decode_field on what encode_field returned.
DecodeEncoded ==
  /\ op = "encode_field"
  /\ result' = deserialize_FirestoreType(result)
  /\ op' = "round_trip"
  /\ UNCHANGED input

\* encode_field on what decode_field returned.
EncodeDecoded ==
  /\ op = "decode_field" /\ result.ok
  /\ result' = encode_field(result.val)
  /\ op' = "re_encode"
  /\ UNCHANGED input

\* all_into on a vector.
AllInto ==
  /\ op = "idle" /\ input.is = "vector"
  /\ result' = all_into(input.source)
  /\ op' = "all_into"
  /\ UNCHANGED input

\* make_url on a function name and a database name.
MakeUrl ==
  /\ op = "idle" /\ input.is = "url"
  /\ result' = make_url(input.function, input.name)
  /\ op' = "make_url"
  /\ UNCHANGED input

\* databases::export_documents
ExportDocuments ==
  /\ op = "idle" /\ input.is = "request"
  /\ result' = export_documents(input.database, input.collection_ids, input.uri_prefix,
                                input.reply)
  /\ op' = "export_documents"
  /\ UNCHANGED input

\* databases::import_documents
ImportDocuments ==
  /\ op = "idle" /\ input.is = "request"
  /\ result' = import_documents(input.database, input.collection_ids, input.uri_prefix,
                                input.reply)
  /\ op' = "import_documents"
  /\ UNCHANGED input

\* handle_document_get on the response to the GET.
HandleDocumentGet ==
  /\ op = "idle" /\ input.is \in {"json", "failure"}
  /\ result' = handle_document_get(
                  retrieve_document(IF input.is = "json" THEN Response(input.node)
                                                         ELSE TransportFailure))
  /\ op' = "handle_document_get"
  /\ UNCHANGED input

\* handle_document_delete on the response to the DELETE.
HandleDocumentDelete ==
  /\ op = "idle" /\ input.is \in {"json", "failure"}
  /\ result' = handle_document_delete(
                  delete_document_at_path(IF input.is = "json" THEN Response(input.node)
                                                               ELSE TransportFailure))
  /\ op' = "handle_document_delete"
  /\ UNCHANGED input

\* main
Main ==
  /\ op = "idle" /\ input.is = "launch"
  /\ result' = main(input.vars, input.args, input.loads, input.entrypoint, input.response)
  /\ op' = "main"
  /\ UNCHANGED input

Next ==
  \/ Main
  \/ HandleDocumentGet
  \/ HandleDocumentDelete
  \/ AllInto
  \/ MakeUrl
  \/ ExportDocuments
  \/ ImportDocuments
  \/ DecodeField
  \/ DecodeFields
  \/ RetrieveDocument
  \/ DeleteDocument
  \/ EncodeField
  \/ DecodeEncoded
  \/ EncodeDecoded

Spec == Init /\ [][Next]_vars

(***************************************************************************)
(* What the claims speak of                                                *)
(***************************************************************************)
\* The keys of an object.
KeysOf(node) == {node.members[i][1] : i \in 1..Len(node.members)}

\* The decode_field call on an object of exactly one member with this key.
DecodedTagged(key) ==
  /\ op = "decode_field" /\ input.node.k = "obj"
  /\ Len(input.node.members) = 1 /\ input.node.members[1][1] = key

\* The payload of that member.
PayloadIn == input.node.members[1][2]

\* Text of the form [+-]?[0-9]+ .
IsIntText(s) ==
  /\ s # <<>>
  /\ LET d == IF Head(s) \in {"+", "-"} THEN Tail(s) ELSE s IN d # <<>> /\ is_digits(d)

RECURSIVE StripZeros(_)
StripZeros(ds) == IF Len(ds) > 1 /\ Head(ds) = 0 THEN StripZeros(Tail(ds)) ELSE ds

\* The number an integer text denotes.
TextNumber(s) ==
  LET d  == IF Head(s) \in {"+", "-"} THEN Tail(s) ELSE s
      ip == StripZeros([i \in 1..Len(d) |-> to_digit(d[i])])
  IN Num(Head(s) = "-" /\ ip # <<0>>, ip, <<>>)

\* a <= b for digit sequences without leading zeros.
RECURSIVE LexLeq(_, _)
LexLeq(a, b) ==
  IF a = <<>> THEN TRUE
  ELSE IF Head(a) # Head(b) THEN Head(a) < Head(b)
  ELSE LexLeq(Tail(a), Tail(b))

DigitsLeq(a, b) == Len(a) < Len(b) \/ (Len(a) = Len(b) /\ LexLeq(a, b))

\* -2^63 <= n <= 2^63 - 1
InI64(num) ==
  /\ num.fp = <<>>
  /\ DigitsLeq(num.ip, IF num.neg THEN NumI64Min.ip ELSE NumI64Max.ip)

\* -2^31 <= n <= 2^31 - 1
InI32(num) ==
  /\ num.fp = <<>>
  /\ DigitsLeq(num.ip, IF num.neg THEN NumI32Min.ip ELSE NumI32Max.ip)

(***************************************************************************)
(* C1.  Round-trip law: for every value v, decode_field(encode_field(v))   *)
(* returns Ok(v).  Stated as the claim has it; the decoder refuses the     *)
(* encoding of every Integer outside the i32 range and of every GeoPoint   *)
(* with a fractional coordinate.                                           *)
(***************************************************************************)
C1_RoundTripLaw == op = "round_trip" => result = Ok(input.val)

(***************************************************************************)
(* C2.  Tag exclusivity: decode_field on an object holding two or more of  *)
(* the eight recognized keys, in any order, returns an error and never a   *)
(* value.  The error is serde_json's, not an AmbiguousValueType.           *)
(***************************************************************************)
TwoRecognizedKeys ==
  /\ op = "decode_field" /\ input.node.k = "obj"
  /\ Cardinality(KeysOf(input.node) \cap VARIANTS) >= 2

C2_TagExclusivity == TwoRecognizedKeys => ~result.ok

\* C2 as first stated: the error is AmbiguousValueType.
C2_Original == TwoRecognizedKeys => (~result.ok /\ result.err = "AmbiguousValueType")

\* C2: an object with integerValue then stringValue, both well formed, is refused.
C2_Witness ==
  /\ TwoRecognizedKeys
  /\ input.node = Tagged2("integerValue", JStr(TxtHundred), "stringValue", JStr(TxtFast))
  /\ ~result.ok

(***************************************************************************)
(* C3.  Unknown tag: decode_field on an object with none of the eight      *)
(* recognized keys (the empty object included) returns an error and never  *)
(* a value.  The error is serde_json's, not an UnknownValueType.           *)
(***************************************************************************)
NoRecognizedKey ==
  /\ op = "decode_field" /\ input.node.k = "obj"
  /\ KeysOf(input.node) \cap VARIANTS = {}

C3_UnknownTag == NoRecognizedKey => ~result.ok

\* C3 as first stated: the error is UnknownValueType.
C3_Original == NoRecognizedKey => (~result.ok /\ result.err = "UnknownValueType")

\* C3: the empty object is refused.
C3_Witness == NoRecognizedKey /\ input.node = JObj(<<>>) /\ ~result.ok

\* C3: an object with one unrecognized key is refused.
C3_WitnessUnknownKey ==
  NoRecognizedKey /\ input.node = Tagged("doubleValue", JNum(NumLat)) /\ ~result.ok

(***************************************************************************)
(* C4.  Integer range: decode_field({integerValue: s}) for a string s      *)
(* returns Integer(n) exactly when s is the decimal text of an n of the    *)
(* 64-bit range, and an error otherwise.  Stated as the claim has it; the  *)
(* code parses into an i32.                                                *)
(***************************************************************************)
C4_IntegerRange64 ==
  (DecodedTagged("integerValue") /\ PayloadIn.k = "str") =>
     IF IsIntText(PayloadIn.s) /\ InI64(TextNumber(PayloadIn.s))
     THEN result = Ok(Integer(TextNumber(PayloadIn.s)))
     ELSE ~result.ok

(***************************************************************************)
(* C5.  Scalar payload kind: decode_field returns an error and no value    *)
(* when booleanValue's payload is not a JSON boolean, when stringValue's   *)
(* or timestampValue's is not a JSON string, and when integerValue's is    *)
(* neither a JSON string nor a JSON number; a JSON number under            *)
(* integerValue is decoded to that Integer when it is an integer of the    *)
(* i32 range and is an error otherwise.                                    *)
(***************************************************************************)
C5_PayloadKind ==
  /\ (DecodedTagged("booleanValue") /\ PayloadIn.k # "bool") => ~result.ok
  /\ (DecodedTagged("stringValue") /\ PayloadIn.k # "str") => ~result.ok
  /\ (DecodedTagged("timestampValue") /\ PayloadIn.k # "str") => ~result.ok
  /\ (DecodedTagged("integerValue") /\ PayloadIn.k \notin {"str", "num"}) => ~result.ok
  /\ (DecodedTagged("integerValue") /\ PayloadIn.k = "num"
        /\ PayloadIn.num # Num(TRUE, <<0>>, <<>>)) =>
        IF InI32(PayloadIn.num) THEN result = Ok(Integer(PayloadIn.num)) ELSE ~result.ok

\* C5 as first stated: every payload of the wrong JSON kind is an error
\* (TypeMismatch for booleanValue), a JSON number under integerValue too.
C5_Original ==
  /\ (DecodedTagged("booleanValue") /\ PayloadIn.k # "bool") =>
        (~result.ok /\ result.err = "TypeMismatch")
  /\ (DecodedTagged("stringValue") /\ PayloadIn.k # "str") => ~result.ok
  /\ (DecodedTagged("timestampValue") /\ PayloadIn.k # "str") => ~result.ok
  /\ (DecodedTagged("integerValue") /\ PayloadIn.k # "str") => ~result.ok

\* C5: {integerValue: 100}, a JSON number, is decoded to Integer(100).
C5_Witness ==
  /\ DecodedTagged("integerValue") /\ PayloadIn = JNum(NumHundred)
  /\ result = Ok(Integer(NumHundred))

(***************************************************************************)
(* C6.  nullValue: decode_field({nullValue: p}) returns Null when p is the *)
(* JSON null and an error for every other payload.                         *)
(***************************************************************************)
C6_NullPayload ==
  DecodedTagged("nullValue") =>
    IF PayloadIn.k = "null" THEN result = Ok(Null) ELSE ~result.ok

\* C6 as first stated: Null whatever the payload.
C6_Original == DecodedTagged("nullValue") => result = Ok(Null)

\* C6: {nullValue: "NULL_VALUE"} is refused.
C6_Witness ==
  DecodedTagged("nullValue") /\ PayloadIn = JStr(TxtNullValueWord) /\ ~result.ok

(***************************************************************************)
(* C7.  Empty composite defaults: {arrayValue: {}} decodes to the empty    *)
(* Array and {mapValue: {}} to the empty Map, as the forms with an empty   *)
(* `values` and an empty `fields` do.  Stated as the claim has it; the     *)
(* structs Array and Map have no default for their field.                  *)
(***************************************************************************)
C7_EmptyComposites ==
  /\ (DecodedTagged("arrayValue") /\ PayloadIn = JObj(<<>>)) =>
        (result = Ok(Array(<<>>))
         /\ result = deserialize_FirestoreType(WireArray(<<>>)))
  /\ (DecodedTagged("mapValue") /\ PayloadIn = JObj(<<>>)) =>
        (result = Ok(Map(EmptyMap))
         /\ result = deserialize_FirestoreType(WireMap(<<>>)))

(***************************************************************************)
(* C8.  Fail-fast, no partial results: decode_fields on an object returns  *)
(* Ok with one entry per field name exactly when decode_field succeeds on  *)
(* every member; otherwise it returns the error of the first member that   *)
(* fails, and retrieve_document returns that error and no Document.        *)
(***************************************************************************)
MemberResult(node, i) == deserialize_FirestoreType(node.members[i][2])

Failing(node) == {i \in 1..Len(node.members) : ~MemberResult(node, i).ok}

FirstFailing(node) == CHOOSE i \in Failing(node) : \A j \in Failing(node) : i <= j

LastNamed(node, name) ==
  CHOOSE i \in 1..Len(node.members) :
    /\ node.members[i][1] = name
    /\ \A j \in 1..Len(node.members) : node.members[j][1] = name => j <= i

FailFast(node, r) ==
  IF Failing(node) = {}
  THEN /\ r.ok
       /\ DOMAIN r.val = KeysOf(node)
       /\ \A name \in KeysOf(node) : r.val[name] = MemberResult(node, LastNamed(node, name)).val
  ELSE r = MemberResult(node, FirstFailing(node))

C8_FailFast ==
  /\ (op = "decode_fields" /\ input.node.k = "obj") => FailFast(input.node, result)
  /\ \A f \in FieldObjects :
        (op = "retrieve_document" /\ input.is = "json" /\ input.node = DocumentBody(f)) =>
          IF Failing(f) = {}
          THEN result.ok /\ FailFast(f, Ok(result.val.fields))
          ELSE result = Err(json_decode_error(MemberResult(f, FirstFailing(f)).err))

\* C8: the second of two fields fails: the call fails, the first is not returned.
C8_Witness ==
  /\ op = "decode_fields"
  /\ input.node = JObj(<< <<"wheels", GoodSeed>>, <<"tags", BadSeed>> >>)
  /\ ~result.ok

\* C8: a document whose field fails inside a nested array is no Document.
C8_WitnessDocument ==
  /\ op = "retrieve_document" /\ input.is = "json"
  /\ input.node = DocumentBody(JObj(<< <<"wheels", GoodSeed>>,
                                       <<"tags", WireArray(<<GoodSeed, BadSeed>>)>> >>))
  /\ ~result.ok

(***************************************************************************)
(* C9.  GeoPoint: for an object g, decode_field({geoPointValue: g})        *)
(* returns the GeoPoint of the two wire numbers exactly when latitude and  *)
(* longitude are both JSON numbers, fractional ones included, and an error *)
(* when either is missing or is no number.  Stated as the claim has it;    *)
(* the code's coordinates are i32.                                         *)
(***************************************************************************)
HasNumber(node, name) ==
  \E i \in 1..Len(node.members) :
    node.members[i][1] = name /\ node.members[i][2].k = "num"

NumberAt(node, name) ==
  node.members[CHOOSE i \in 1..Len(node.members) : node.members[i][1] = name][2].num

C9_GeoPoint ==
  (DecodedTagged("geoPointValue") /\ PayloadIn.k = "obj") =>
    IF HasNumber(PayloadIn, "latitude") /\ HasNumber(PayloadIn, "longitude")
    THEN result = Ok(GeoLocation(NumberAt(PayloadIn, "latitude"),
                                 NumberAt(PayloadIn, "longitude")))
    ELSE ~result.ok

(***************************************************************************)
(* C10.  Integer is encoded as a string: encode_field(Integer(n)) is the   *)
(* object of the single member integerValue whose payload is a JSON string *)
(* holding the decimal text of n, never a JSON number.                     *)
(***************************************************************************)
C10_IntegerAsString ==
  (op = "encode_field" /\ input.val.t = "Integer") =>
    /\ result.k = "obj" /\ Len(result.members) = 1
    /\ result.members[1][1] = "integerValue"
    /\ result.members[1][2].k = "str"
    /\ IsIntText(result.members[1][2].s)
    /\ TextNumber(result.members[1][2].s) = input.val.n

\* C10: Integer(i64::MIN) is encoded as the string "-9223372036854775808".
C10_Witness ==
  /\ op = "encode_field" /\ input.val = Integer(NumI64Min)
  /\ result = Tagged("integerValue", JStr(TxtI64Min))

(***************************************************************************)
(* C11.  Encode is total and tag-exclusive: for every value tree v,        *)
(* encode_field(v) is a wire object, and that object and every wire value  *)
(* nested in its arrayValue.values and mapValue.fields holds exactly one   *)
(* of the eight recognized keys, the key of the corresponding variant.     *)
(***************************************************************************)
\* The wire key of each variant of the value model.
TagOf(t) ==
  CASE t = "Integer" -> "integerValue"
    [] t = "Boolean" -> "booleanValue"
    [] t = "String" -> "stringValue"
    [] t = "Null" -> "nullValue"
    [] t = "GeoLocation" -> "geoPointValue"
    [] t = "Timestamp" -> "timestampValue"
    [] t = "Array" -> "arrayValue"
    [] t = "Map" -> "mapValue"

RecognizedAt(w) == {i \in 1..Len(w.members) : w.members[i][1] \in VARIANTS}

\* The member of an object under a name that occurs once.
MemberNamed(w, name) ==
  w.members[CHOOSE i \in 1..Len(w.members) : w.members[i][1] = name][2]

NamedOnce(w, name) ==
  Cardinality({i \in 1..Len(w.members) : w.members[i][1] = name}) = 1

RECURSIVE TagExclusive(_, _)
TagExclusive(w, v) ==
  /\ w.k = "obj"
  /\ Cardinality(RecognizedAt(w)) = 1
  /\ w.members[CHOOSE i \in RecognizedAt(w) : TRUE][1] = TagOf(v.t)
  /\ v.t = "Array" =>
       /\ MemberNamed(w, "arrayValue").k = "obj"
       /\ NamedOnce(MemberNamed(w, "arrayValue"), "values")
       /\ MemberNamed(MemberNamed(w, "arrayValue"), "values").k = "arr"
       /\ Len(MemberNamed(MemberNamed(w, "arrayValue"), "values").items) = Len(v.values)
       /\ \A i \in 1..Len(v.values) :
            TagExclusive(MemberNamed(MemberNamed(w, "arrayValue"), "values").items[i],
                         v.values[i])
  /\ v.t = "Map" =>
       /\ MemberNamed(w, "mapValue").k = "obj"
       /\ NamedOnce(MemberNamed(w, "mapValue"), "fields")
       /\ MemberNamed(MemberNamed(w, "mapValue"), "fields").k = "obj"
       /\ KeysOf(MemberNamed(MemberNamed(w, "mapValue"), "fields")) = DOMAIN v.fields
       /\ \A name \in DOMAIN v.fields :
            /\ NamedOnce(MemberNamed(MemberNamed(w, "mapValue"), "fields"), name)
            /\ TagExclusive(MemberNamed(MemberNamed(MemberNamed(w, "mapValue"), "fields"), name),
                            v.fields[name])

C11_EncodeTagExclusive == op = "encode_field" => TagExclusive(result, input.val)

\* C11: a map holding an integer and an array of an integer and a null is
\* encoded with one key at each of its five wire values.
C11_Witness ==
  /\ op = "encode_field"
  /\ input.val = Map(("wheels" :> Integer(NumFour))
                     @@ ("tags" :> Array(<<Integer(NumFour), Null>>)))
  /\ TagExclusive(result, input.val)
  /\ KeysOf(result) = {"mapValue"}

(***************************************************************************)
(* C12.  Timestamp fidelity: for a string t of RFC 3339 form with nine     *)
(* fraction digits and a trailing Z, decode_field({timestampValue: t})     *)
(* returns a Timestamp holding those nine digits, and encode_field of it   *)
(* returns {timestampValue: t} with the identical string.  A string that   *)
(* is no date-time even when fields may be unpadded and spaces may stand   *)
(* between them is an error; the error is the parser's message, not a      *)
(* MalformedTimestamp, and a string that departs from RFC 3339 only by     *)
(* padding or spaces (2024-1-15T10:30:00Z) is decoded to a Timestamp.      *)
(***************************************************************************)
\* "." and one or more digits, or nothing.
IsFraction(f) == f = <<>> \/ (Len(f) >= 2 /\ Head(f) = "." /\ is_digits(Tail(f)))

\* time-offset of RFC 3339: Z, or a sign, hh, ":" and mm.
IsZone(z) ==
  \/ z \in {<<"Z">>, <<"z">>}
  \/ /\ Len(z) = 6 /\ z[1] \in {"+", "-"} /\ z[4] = ":"
     /\ is_digits(SubSeq(z, 2, 3)) /\ is_digits(SubSeq(z, 5, 6))
     /\ number_of(SubSeq(z, 2, 3)) <= 23 /\ number_of(SubSeq(z, 5, 6)) <= 59

\* date-time of RFC 3339.
IsRfc3339(s) ==
  /\ Len(s) >= 20
  /\ is_digits(SubSeq(s, 1, 4)) /\ s[5] = "-"
  /\ is_digits(SubSeq(s, 6, 7)) /\ s[8] = "-"
  /\ is_digits(SubSeq(s, 9, 10)) /\ s[11] \in {"T", "t"}
  /\ is_digits(SubSeq(s, 12, 13)) /\ s[14] = ":"
  /\ is_digits(SubSeq(s, 15, 16)) /\ s[17] = ":"
  /\ is_digits(SubSeq(s, 18, 19))
  /\ number_of(SubSeq(s, 6, 7)) \in 1..12
  /\ number_of(SubSeq(s, 9, 10))
       \in 1..days_in_month(number_of(SubSeq(s, 1, 4)), number_of(SubSeq(s, 6, 7)))
  /\ number_of(SubSeq(s, 12, 13)) <= 23
  /\ number_of(SubSeq(s, 15, 16)) <= 59
  /\ number_of(SubSeq(s, 18, 19)) <= 60
  /\ \E n \in 20..Len(s) : IsFraction(SubSeq(s, 20, n - 1)) /\ IsZone(SubSeq(s, n, Len(s)))

\* Nine fraction digits and a trailing Z.
IsNanoZ(s) ==
  /\ Len(s) = 30 /\ IsRfc3339(s)
  /\ s[20] = "." /\ is_digits(SubSeq(s, 21, 29)) /\ s[30] = "Z"

\* The text without its spaces.
RECURSIVE Squeezed(_)
Squeezed(s) ==
  IF s = <<>> THEN <<>>
  ELSE IF Head(s) = " " THEN Squeezed(Tail(s))
  ELSE <<Head(s)>> \o Squeezed(Tail(s))

\* One to w digits of a value in lo..hi.
FieldIn(f, w, lo, hi) ==
  f # <<>> /\ Len(f) <= w /\ is_digits(f) /\ number_of(f) >= lo /\ number_of(f) <= hi

\* A year: at most four digits, or a sign and digits.
IsYear(f) ==
  \/ FieldIn(f, 4, 0, 9999)
  \/ Len(f) >= 2 /\ Head(f) \in {"+", "-"} /\ is_digits(Tail(f))

YearOf(f) ==
  IF Head(f) = "-" THEN -number_of(Tail(f))
  ELSE IF Head(f) = "+" THEN number_of(Tail(f)) ELSE number_of(f)

\* Z, or a sign, hh, any colons and mm, less than a day.
IsLooseZone(z) ==
  \/ z \in {<<"Z">>, <<"z">>}
  \/ /\ Len(z) >= 5 /\ z[1] \in {"+", "-"} /\ is_digits(SubSeq(z, 2, 3))
     /\ \A i \in 4..(Len(z) - 2) : z[i] = ":"
     /\ is_digits(SubSeq(z, Len(z) - 1, Len(z)))
     /\ number_of(SubSeq(z, 2, 3)) <= 23 /\ number_of(SubSeq(z, Len(z) - 1, Len(z))) <= 59

\* The squeezed text t from position f on: seconds, fraction and zone.
LooseSeconds(t, e) ==
  \E f \in (e + 2)..(e + 3) :
    /\ f <= Len(t) /\ FieldIn(SubSeq(t, e + 1, f - 1), 2, 0, 60)
    /\ \E n \in f..Len(t) : IsFraction(SubSeq(t, f, n - 1)) /\ IsLooseZone(SubSeq(t, n, Len(t)))

\* The squeezed text t from the end of its date (position c, the "T") on.
LooseTime(t, c) ==
  \E d \in (c + 2)..(c + 3) :
    /\ d <= Len(t) /\ t[d] = ":" /\ FieldIn(SubSeq(t, c + 1, d - 1), 2, 0, 23)
    /\ \E e \in (d + 2)..(d + 3) :
         /\ e <= Len(t) /\ t[e] = ":" /\ FieldIn(SubSeq(t, d + 1, e - 1), 2, 0, 59)
         /\ LooseSeconds(t, e)

\* A date-time whose fields may be unpadded and spaced.
IsLooseDateTime(s) ==
  \E a \in 2..Len(Squeezed(s)) :
    /\ Squeezed(s)[a] = "-" /\ IsYear(SubSeq(Squeezed(s), 1, a - 1))
    /\ \E b \in (a + 2)..(a + 3) :
         /\ b <= Len(Squeezed(s)) /\ Squeezed(s)[b] = "-"
         /\ FieldIn(SubSeq(Squeezed(s), a + 1, b - 1), 2, 1, 12)
         /\ \E c \in (b + 2)..(b + 3) :
              /\ c <= Len(Squeezed(s)) /\ Squeezed(s)[c] = "T"
              /\ FieldIn(SubSeq(Squeezed(s), b + 1, c - 1), 2, 1,
                         days_in_month(YearOf(SubSeq(Squeezed(s), 1, a - 1)),
                                       number_of(SubSeq(Squeezed(s), a + 1, b - 1))))
              /\ LooseTime(Squeezed(s), c)

\* The call, or the re-encoding of its result, on {timestampValue: <string>}.
OnTimestampText(o) ==
  /\ op = o /\ input.is = "json" /\ input.node.k = "obj"
  /\ Len(input.node.members) = 1 /\ input.node.members[1][1] = "timestampValue"
  /\ PayloadIn.k = "str"

C12_WitnessRefused ==
  /\ OnTimestampText("decode_field") /\ PayloadIn.s = TxtStampBadMonth
  /\ ~IsLooseDateTime(PayloadIn.s) /\ ~result.ok

(***************************************************************************)
(* C13.  Recursive decode keeps shape and order: for a wire array whose    *)
(* elements all decode, decode_field returns an Array of as many items,    *)
(* the i-th being decode_field of the i-th element; for a wire map whose   *)
(* members all decode it returns a Map of exactly the member names, each   *)
(* bound to decode_field of its wire value (of the last one, where a name  *)
(* is repeated); and so at every depth, arrays in maps and maps in arrays. *)
(***************************************************************************)
\* {arrayValue: {values: [...]}}
IsWireArray(w) ==
  /\ w.k = "obj" /\ Len(w.members) = 1 /\ w.members[1][1] = "arrayValue"
  /\ w.members[1][2].k = "obj" /\ Len(w.members[1][2].members) = 1
  /\ w.members[1][2].members[1][1] = "values"
  /\ w.members[1][2].members[1][2].k = "arr"

ItemsOf(w) == w.members[1][2].members[1][2].items

\* {mapValue: {fields: {...}}}
IsWireMap(w) ==
  /\ w.k = "obj" /\ Len(w.members) = 1 /\ w.members[1][1] = "mapValue"
  /\ w.members[1][2].k = "obj" /\ Len(w.members[1][2].members) = 1
  /\ w.members[1][2].members[1][1] = "fields"
  /\ w.members[1][2].members[1][2].k = "obj"

FieldsOf(w) == w.members[1][2].members[1][2]

\* Every element of the array, or member of the map, decodes.
AllDecode(w) ==
  IF IsWireArray(w)
  THEN \A i \in 1..Len(ItemsOf(w)) : deserialize_FirestoreType(ItemsOf(w)[i]).ok
  ELSE Failing(FieldsOf(w)) = {}

RECURSIVE ShapeKept(_, _)
ShapeKept(w, v) ==
  IF IsWireArray(w)
  THEN /\ v.t = "Array" /\ Len(v.values) = Len(ItemsOf(w))
       /\ \A i \in 1..Len(ItemsOf(w)) :
            /\ v.values[i] = deserialize_FirestoreType(ItemsOf(w)[i]).val
            /\ ShapeKept(ItemsOf(w)[i], v.values[i])
  ELSE IF IsWireMap(w)
  THEN /\ v.t = "Map" /\ DOMAIN v.fields = KeysOf(FieldsOf(w))
       /\ \A name \in KeysOf(FieldsOf(w)) :
            /\ v.fields[name] = MemberResult(FieldsOf(w), LastNamed(FieldsOf(w), name)).val
            /\ ShapeKept(FieldsOf(w).members[LastNamed(FieldsOf(w), name)][2], v.fields[name])
  ELSE TRUE

C13_ShapeAndOrder ==
  (/\ op = "decode_field"
   /\ (IsWireArray(input.node) \/ IsWireMap(input.node))
   /\ AllDecode(input.node)) =>
     (result.ok /\ ShapeKept(input.node, result.val))

\* C13: an array of an integer and a map of an integer and a string keeps
\* its two items in order and the map its two names.
C13_Witness ==
  /\ op = "decode_field"
  /\ input.node = WireArray(<<GoodSeed,
                              WireMap(<< <<"wheels", GoodSeed>>,
                                         <<"tags", Tagged("stringValue", JStr(TxtFast))>> >>)>>)
  /\ result = Ok(Array(<<Integer(NumFour),
                         Map(("wheels" :> Integer(NumFour)) @@ ("tags" :> String(TxtFast)))>>))
  /\ ShapeKept(input.node, result.val)

(***************************************************************************)
(* C14.  Decode errors: every decode failure is a message, a string, and   *)
(* retrieve_document and delete_document return it behind the text         *)
(* "Failed to decode JSON: ".  The failure of an element of an array, or   *)
(* of a member of a map, is returned as the message that value gives when  *)
(* decoded alone: no index, field name or path from the document root is   *)
(* put with it, and it is no value of an enumeration of error kinds.  (The *)
(* line and column serde_json adds to its message are not modelled.)       *)
(***************************************************************************)
FailingItems(w) ==
  {i \in 1..Len(ItemsOf(w)) : ~deserialize_FirestoreType(ItemsOf(w)[i]).ok}

FirstFailingItem(w) == CHOOSE i \in FailingItems(w) : \A j \in FailingItems(w) : i <= j

\* The names of the specification's error kinds.
ErrorKinds ==
  {"TypeMismatch", "MalformedInteger", "MalformedGeoPoint", "MalformedTimestamp",
   "UnknownValueType", "AmbiguousValueType"}

C14_WitnessDocument ==
  /\ op = "retrieve_document" /\ input.is = "json"
  /\ input.node = DocumentBody(JObj(<< <<"wheels", GoodSeed>>,
                                       <<"tags", WireArray(<<GoodSeed, BadSeed>>)>> >>))
  /\ result = Err(json_decode_error(deserialize_FirestoreType(BadSeed).err))

(***************************************************************************)
(* C15.  make_url(function, name) is the text                              *)
(* https://firestore.googleapis.com/v1beta2 + "/{name=" + name + "}:" +    *)
(* function for every function and database name; export_documents posts   *)
(* to make_url("exportDocuments", d) and import_documents to               *)
(* make_url("importDocuments", d).                                         *)
(***************************************************************************)
TxtBase ==
  <<"h", "t", "t", "p", "s", ":", "/", "/", "f", "i", "r", "e", "s", "t", "o", "r", "e", ".",
    "g", "o", "o", "g", "l", "e", "a", "p", "i", "s", ".", "c", "o", "m", "/", "v", "1", "b",
    "e", "t", "a", "2">>

TxtExportUrl ==
  <<"h", "t", "t", "p", "s", ":", "/", "/", "f", "i", "r", "e", "s", "t", "o", "r", "e", ".",
    "g", "o", "o", "g", "l", "e", "a", "p", "i", "s", ".", "c", "o", "m", "/", "v", "1", "b",
    "e", "t", "a", "2", "/", "{", "n", "a", "m", "e", "=", "p", "r", "o", "j", "e", "c", "t",
    "s", "/", "{", "p", "r", "o", "j", "e", "c", "t", "_", "i", "d", "}", "/", "d", "a", "t",
    "a", "b", "a", "s", "e", "s", "/", "{", "d", "a", "t", "a", "b", "a", "s", "e", "_", "i",
    "d", "}", "}", ":", "e", "x", "p", "o", "r", "t", "D", "o", "c", "u", "m", "e", "n", "t",
    "s">>

TxtImportUrl ==
  <<"h", "t", "t", "p", "s", ":", "/", "/", "f", "i", "r", "e", "s", "t", "o", "r", "e", ".",
    "g", "o", "o", "g", "l", "e", "a", "p", "i", "s", ".", "c", "o", "m", "/", "v", "1", "b",
    "e", "t", "a", "2", "/", "{", "n", "a", "m", "e", "=", "p", "r", "o", "j", "e", "c", "t",
    "s", "/", "{", "p", "r", "o", "j", "e", "c", "t", "_", "i", "d", "}", "/", "d", "a", "t",
    "a", "b", "a", "s", "e", "s", "/", "{", "d", "a", "t", "a", "b", "a", "s", "e", "_", "i",
    "d", "}", "}", ":", "i", "m", "p", "o", "r", "t", "D", "o", "c", "u", "m", "e", "n", "t",
    "s">>

C15_MakeUrl ==
  /\ op = "make_url" =>
       result = TxtBase \o <<"/", "{", "n", "a", "m", "e", "=">> \o input.name.str
                  \o <<"}", ":">> \o input.function.str
  /\ op = "export_documents" =>
       result.posted.url = make_url(Str(<<"e", "x", "p", "o", "r", "t", "D", "o", "c", "u", "m", "e", "n", "t", "s">>),
                                    input.database)
  /\ op = "import_documents" =>
       result.posted.url = make_url(Str(<<"i", "m", "p", "o", "r", "t", "D", "o", "c", "u", "m", "e", "n", "t", "s">>),
                                    input.database)

\* C15: the export of projects/{project_id}/databases/{database_id} is posted
\* to the url the test of make_url expects.
C15_Witness ==
  /\ op = "export_documents" /\ input.database = Str(TxtTestDatabase)
  /\ result.posted.url = TxtExportUrl

\* C15: the import likewise.
C15_WitnessImport ==
  /\ op = "import_documents" /\ input.database = Str(TxtTestDatabase)
  /\ result.posted.url = TxtImportUrl

\* C15: make_url on the arguments of its test.
C15_WitnessMakeUrl ==
  /\ op = "make_url" /\ input.name = Str(TxtTestDatabase)
  /\ input.function = Str(TxtListDocuments)
  /\ result = TxtBase \o <<"/", "{", "n", "a", "m", "e", "=">> \o TxtTestDatabase
                \o <<"}", ":">> \o TxtListDocuments

(***************************************************************************)
(* C16.  all_into(source) is a vector as long as source whose i-th element *)
(* is the conversion of the i-th element of source: order is kept, nothing *)
(* is dropped or repeated, and the empty vector gives the empty vector.    *)
(***************************************************************************)
C16_AllInto ==
  op = "all_into" =>
    /\ Len(result) = Len(input.source)
    /\ \A i \in 1..Len(input.source) : result[i] = input.source[i].str
    /\ input.source = <<>> => result = <<>>

\* C16: the vector of the code's test, ["hello", "world"].
C16_Witness ==
  /\ op = "all_into" /\ input.source = <<Str(TxtHello), Str(TxtWorld)>>
  /\ result = <<TxtHello, TxtWorld>>

\* C16: the empty vector.
C16_WitnessEmpty == op = "all_into" /\ input.source = <<>> /\ result = <<>>

(***************************************************************************)
(* C17.  Credential sources of main: whenever the project id and the       *)
(* service-account path are each given on the command line or in the       *)
(* environment, main calls DatabaseContext::new with, for each, the        *)
(* command line's value if there is one and the environment's otherwise,   *)
(* and does not end with the "not provided" error.  Stated as the claim    *)
(* has it; main takes both values from the command line or both from the   *)
(* environment.                                                            *)
(***************************************************************************)
\* The command line's value if there is one, the environment's otherwise.
Preferred(cli, env) == IF cli.some THEN cli.v ELSE env.v

C17_CredentialSources ==
  (/\ op = "main"
   /\ (value_of(input.args, 1).some \/ input.vars.PROJECT_ID.some)
   /\ (value_of(input.args, 2).some \/ input.vars.GOOGLE_APPLICATION_CREDENTIALS.some)) =>
     /\ ~result.exited
     /\ result.attempted =
          Some(Environment(Preferred(value_of(input.args, 2),
                                     input.vars.GOOGLE_APPLICATION_CREDENTIALS),
                           Preferred(value_of(input.args, 1), input.vars.PROJECT_ID)))

(***************************************************************************)
(* C18.  Handlers surface request failures: handle_document_get and        *)
(* handle_document_delete return Err(e) when get_document, respectively    *)
(* delete_document, returns Err(e), from the request or from decoding the  *)
(* response, and Ok(()) only when that call succeeded.  Stated as the      *)
(* claim has it; handle_document_delete does not look at the result.       *)
(***************************************************************************)
\* The response the handler's request got.
ResponseIn == IF input.is = "json" THEN Response(input.node) ELSE TransportFailure

Surfaced(called, returned) == IF called.ok THEN returned = Ok(Unit) ELSE returned = called

C18_HandlersSurface ==
  /\ op = "handle_document_get" => Surfaced(retrieve_document(ResponseIn), result)
  /\ op = "handle_document_delete" => Surfaced(delete_document_at_path(ResponseIn), result)

====
